---- MODULE Spec2Model ----
(***************************************************************************)
(* The expedition state machine of the hex exploration game: the axial     *)
(* hex math (lib/hexMath), the deterministic tile generator, the tile      *)
(* store with its hydration and pulse updates, and the move / rest /       *)
(* pulse / build handlers of pages/GamePage.tsx, under React's batching    *)
(* of the state updates queued by the handlers of one input event.         *)
(***************************************************************************)
EXTENDS Integers, Sequences, FiniteSets, TLC

VARIABLES player, inventory, tiles, selectedTile, hasWon, effectPending

\* A library function looked at on its own: the call under way and, once it
\* has returned, what it returned.
VARIABLES call, returned

vars == <<player, inventory, tiles, selectedTile, hasWon, effectPending, call, returned>>

(***************************************************************************)
(* Program constants (GamePage.tsx).                                       *)
(***************************************************************************)
VISION_RADIUS == 2
GENERATION_RADIUS == 6
PULSE_RADIUS == 4
PULSE_COST == 2
BASE_ENERGY == 12
CAMP_RECOVERY == 4
OUTPOST_COST == [wood |-> 2, ore |-> 1, water |-> 1]
BEACON_RING == 12
BEACON_SEED == 1337

\* null, as a value that is no key: a key holds a comma.
Null == << "null" >>
Undefined == "undefined"

Max(a, b) == IF a >= b THEN a ELSE b
Min(a, b) == IF a <= b THEN a ELSE b
Abs(a) == IF a < 0 THEN -a ELSE a

Coord(q, r) == [q |-> q, r |-> r]

(***************************************************************************)
(* lib/hexMath                                                             *)
(***************************************************************************)
HEX_DIRECTIONS ==
  << Coord(1, 0), Coord(1, -1), Coord(0, -1), Coord(-1, 0), Coord(-1, 1), Coord(0, 1) >>

\* The sum that hexDistance divides by 2.
hexDistanceDividend(a, b) == Abs(a.q - b.q) + Abs(a.q + a.r - b.q - b.r) + Abs(a.r - b.r)

\* hexDistance without the Math.abs around its middle term.
hexDistanceSigned(a, b) ==
  (Abs(a.q - b.q) + (a.q + a.r - b.q - b.r) + Abs(a.r - b.r)) \div 2

hexDistance(a, b) ==
  (Abs(a.q - b.q) + Abs(a.q + a.r - b.q - b.r) + Abs(a.r - b.r)) \div 2

\* hexesInRadiusRow running dr from -radius to radius for every dq.
hexesInRadiusRowSquare(center, radius, dq) ==
  [i \in 1..(2 * radius + 1) |-> Coord(center.q + dq, center.r - radius + i - 1)]

\* One pass of the inner loop of hexesInRadius: the hexes pushed for one dq.
hexesInRadiusRow(center, radius, dq) ==
  LET lo == Max(-radius, -dq - radius)
      hi == Min(radius, -dq + radius)
  IN  [i \in 1..(hi - lo + 1) |-> Coord(center.q + dq, center.r + lo + i - 1)]

RECURSIVE hexesInRadiusFrom(_, _, _)
hexesInRadiusFrom(center, radius, dq) ==
  IF dq > radius THEN << >>
  ELSE hexesInRadiusRow(center, radius, dq) \o hexesInRadiusFrom(center, radius, dq + 1)

hexesInRadius(center, radius) == hexesInRadiusFrom(center, radius, -radius)

\* The hex held by the loop variable of hexRing when the outer loop reaches
\* side i: the start hex moved by radius steps along each earlier direction.
RECURSIVE hexRingSideStart(_, _, _)
hexRingSideStart(center, radius, i) ==
  IF i = 0
  THEN Coord(center.q + HEX_DIRECTIONS[5].q * radius, center.r + HEX_DIRECTIONS[5].r * radius)
  ELSE LET prev == hexRingSideStart(center, radius, i - 1)
       IN  Coord(prev.q + HEX_DIRECTIONS[i].q * radius, prev.r + HEX_DIRECTIONS[i].r * radius)

\* hexRingAt with the inner loop never stepping: each pass of a side pushes
\* the hex the side starts at.
hexRingAtCorner(center, radius, i, j) == hexRingSideStart(center, radius, i)

\* The hex pushed at pass j of side i (both counted from 0).
hexRingAt(center, radius, i, j) ==
  LET from == hexRingSideStart(center, radius, i)
  IN  Coord(from.q + HEX_DIRECTIONS[i + 1].q * j, from.r + HEX_DIRECTIONS[i + 1].r * j)

hexRing(center, radius) ==
  IF radius = 0 THEN << center >>
  ELSE [n \in 1..(6 * radius) |->
          hexRingAt(center, radius, (n - 1) \div radius, (n - 1) % radius)]

DigitChar == << "0", "1", "2", "3", "4", "5", "6", "7", "8", "9" >>

RECURSIVE DigitsOf(_)
DigitsOf(n) ==
  IF n < 10 THEN << DigitChar[n + 1] >>
  ELSE DigitsOf(n \div 10) \o << DigitChar[(n % 10) + 1] >>

\* NumberToString dropping the sign.
NumberToStringUnsigned(n) == DigitsOf(Abs(n))

\* String(n) of an integer n, as a sequence of characters.
NumberToString(n) == IF n < 0 THEN << "-" >> \o DigitsOf(-n) ELSE DigitsOf(n)

hexKey(q, r) == NumberToString(q) \o << "," >> \o NumberToString(r)

\* key.split(','): the pieces between the commas.
RECURSIVE SplitComma(_)
SplitComma(s) ==
  IF \A i \in 1..Len(s) : s[i] # ","
  THEN << s >>
  ELSE LET i == CHOOSE j \in 1..Len(s) : s[j] = "," /\ \A k \in 1..(j - 1) : s[k] # ","
       IN  << SubSeq(s, 1, i - 1) >> \o SplitComma(SubSeq(s, i + 1, Len(s)))

IsDigit(ch) == \E d \in 1..10 : DigitChar[d] = ch

DigitValue(ch) == (CHOOSE d \in 1..10 : DigitChar[d] = ch) - 1

RECURSIVE DigitsValue(_)
DigitsValue(s) ==
  IF Len(s) = 1 THEN DigitValue(s[1])
  ELSE DigitsValue(SubSeq(s, 1, Len(s) - 1)) * 10 + DigitValue(s[Len(s)])

\* Number(s) on the strings a key can hold: "" is 0, an optionally signed
\* run of digits is its value, anything else is NaN.
ToNumber(s) ==
  IF s = << >> THEN 0
  ELSE LET signed == s[1] \in {"-", "+"}
           body == IF signed THEN SubSeq(s, 2, Len(s)) ELSE s
       IN  IF body = << >> \/ \E i \in 1..Len(body) : ~IsDigit(body[i])
           THEN "NaN"
           ELSE IF s[1] = "-" THEN -DigitsValue(body) ELSE DigitsValue(body)

parseHexKey(key) ==
  LET parts == SplitComma(key)
  IN  [q |-> ToNumber(parts[1]),
       r |-> IF Len(parts) >= 2 THEN ToNumber(parts[2]) ELSE Undefined]

(***************************************************************************)
(* generateTile (GamePage.tsx).  The JavaScript ^ works on the operands    *)
(* reduced to 32-bit two's complement; a 32-bit word is held here as its   *)
(* two 16-bit halves so that no intermediate value leaves TLC's integers.  *)
(***************************************************************************)
HASH_Q == 374761393
HASH_R == 668265263
HASH_QR == 1234567
Half == 65536

\* ToInt32(m1 * c1 + m2 * c2) as the halves of its bit pattern.
ToInt32Bits(m1, c1, m2, c2) ==
  LET low == m1 * (c1 % Half) + m2 * (c2 % Half)
  IN  [hi |-> (m1 * (c1 \div Half) + m2 * (c2 \div Half) + (low \div Half)) % Half,
       lo |-> low % Half]

RECURSIVE BitXor(_, _, _)
BitXor(a, b, n) ==
  IF n = 0 THEN 0
  ELSE (((a % 2) + (b % 2)) % 2) + 2 * BitXor(a \div 2, b \div 2, n - 1)

Xor32(x, y) == [hi |-> BitXor(x.hi, y.hi, 16), lo |-> BitXor(x.lo, y.lo, 16)]

\* AbsInt32 without the Math.abs: the bit pattern as the XOR leaves it.
AbsInt32Skipped(w) == w

\* Math.abs of the signed 32-bit value with bit pattern w: a value in 0..2^31.
AbsInt32(w) ==
  IF w.hi < Half \div 2 THEN w
  ELSE [hi |-> (Half - 1 - w.hi + (IF w.lo = 0 THEN 1 ELSE 0)) % Half,
        lo |-> (Half - w.lo) % Half]

tileHash(q, r) ==
  AbsInt32(Xor32(ToInt32Bits(q, HASH_Q, r, HASH_R), ToInt32Bits(q * r, HASH_QR, 0, 0)))

\* hash % m for the hash held in halves.
HashMod(h, m) == ((h.hi % m) * (Half % m) + h.lo) % m

movementCostOf(type) ==
  IF type = "mountain" THEN 3
  ELSE IF type = "water" THEN 3
  ELSE IF type = "forest" THEN 2
  ELSE IF type = "desert" THEN 2
  ELSE IF type = "ruins" THEN 2
  ELSE 1

\* rolledType with the ruins band running on to 3600: no roll gives void.
rolledTypeNoVoid(roll) ==
  IF roll < 1200 THEN "forest"
  ELSE IF roll < 1800 THEN "mountain"
  ELSE IF roll < 2500 THEN "water"
  ELSE IF roll < 3200 THEN "desert"
  ELSE IF roll < 3600 THEN "ruins"
  ELSE "plains"

\* random < t, for random = (hash % 10000) / 10000, is roll < 10000 * t.
rolledType(roll) ==
  IF roll < 1200 THEN "forest"
  ELSE IF roll < 1800 THEN "mountain"
  ELSE IF roll < 2500 THEN "water"
  ELSE IF roll < 3200 THEN "desert"
  ELSE IF roll < 3500 THEN "ruins"
  ELSE IF roll < 3600 THEN "void"
  ELSE "plains"

\* generateTile putting a cache on water and void as well.
generateTileCacheAnywhere(q, r, beacon) ==
  LET hash == tileHash(q, r)
      rolled == rolledType(HashMod(hash, 10000))
      atOrigin == IF q = 0 /\ r = 0 THEN "settlement" ELSE rolled
      isBeacon == q = beacon.q /\ r = beacon.r
      type == IF isBeacon THEN "beacon" ELSE atOrigin
      hasCache == ~isBeacon /\ HashMod(hash, 37) = 0
  IN  [q |-> q,
       r |-> r,
       type |-> type,
       revealed |-> FALSE,
       explored |-> FALSE,
       elevation |-> HashMod(hash, 6),
       movementCost |-> movementCostOf(type),
       passable |-> type # "void",
       feature |-> IF isBeacon THEN "beacon" ELSE IF hasCache THEN "cache" ELSE Undefined,
       featureDiscovered |-> FALSE]

generateTile(q, r, beacon) ==
  LET hash == tileHash(q, r)
      rolled == rolledType(HashMod(hash, 10000))
      atOrigin == IF q = 0 /\ r = 0 THEN "settlement" ELSE rolled
      isBeacon == q = beacon.q /\ r = beacon.r
      type == IF isBeacon THEN "beacon" ELSE atOrigin
      hasCache == ~isBeacon /\ type # "void" /\ type # "water" /\ HashMod(hash, 37) = 0
  IN  [q |-> q,
       r |-> r,
       type |-> type,
       revealed |-> FALSE,
       explored |-> FALSE,
       elevation |-> HashMod(hash, 6),
       movementCost |-> movementCostOf(type),
       passable |-> type # "void",
       feature |-> IF isBeacon THEN "beacon" ELSE IF hasCache THEN "cache" ELSE Undefined,
       featureDiscovered |-> FALSE]

beaconCoord ==
  LET ring == hexRing(Coord(0, 0), BEACON_RING)
      index == Abs(BEACON_SEED % Len(ring))
  IN  ring[index + 1]

(***************************************************************************)
(* The ground the sessions below cover.  At home the user plays on the     *)
(* hexes straight north of the origin; on the trek they follow a trail     *)
(* from the origin to the beacon and play freely at two camps on it.       *)
(***************************************************************************)
HomeReach == 2
ClickReach == 2

Disk(center, radius) ==
  LET coords == hexesInRadius(center, radius)
  IN  {coords[i] : i \in DOMAIN coords}

HomeCells == {Coord(0, -k) : k \in 0..HomeReach}

Trail ==
  << Coord(0, 0), Coord(0, -1), Coord(0, -2), Coord(1, -3), Coord(2, -4), Coord(3, -5),
     Coord(4, -6), Coord(4, -7), Coord(4, -8), Coord(4, -9), Coord(5, -10), Coord(6, -11),
     beaconCoord >>

VoidCamp == {Coord(4, -6), Coord(5, -6), Coord(5, -7), Coord(4, -7)}

BeaconCamp == {Coord(6, -11), beaconCoord}

Camps == VoidCamp \cup BeaconCamp

\* The errand for an outpost: ore from the mountain east of the origin, wood
\* and water to the north, back home to rest, then east past a second forest
\* to the cache at (7, -2).
Errand ==
  << Coord(0, 0), Coord(1, 0), Coord(0, 0), Coord(0, -1), Coord(0, -2), Coord(1, -2),
     Coord(2, -3), Coord(1, -2), Coord(0, -1), Coord(0, 0), Coord(0, -1), Coord(1, -2),
     Coord(2, -2), Coord(3, -2), Coord(4, -3), Coord(5, -3), Coord(6, -3), Coord(6, -2) >>

OutpostCamp == {Coord(6, -2), Coord(7, -2), Coord(5, -2)}

Pilgrimage ==
  << Coord(0, 0), Coord(-1, 0), Coord(0, -1), Coord(1, -2), Coord(1, -3), Coord(1, -4),
     Coord(2, -5), Coord(3, -6), Coord(3, -7), Coord(4, -8), Coord(5, -9), Coord(6, -10),
     Coord(7, -11), beaconCoord >>

BeaconApproach == Coord(7, -11)

\* The retreat: six plains hexes leading from the origin away from the
\* beacon, to a hex 18 from it.
Retreat ==
  << Coord(0, 0), Coord(0, 1), Coord(-1, 2), Coord(-1, 3), Coord(-2, 4), Coord(-3, 5),
     Coord(-4, 6) >>

\* hexKey(coord.q, coord.r)
KeyOf(coord) == hexKey(coord.q, coord.r)

\* generateTile without the settlement and beacon overrides of the type.
GeneratedAsRolled(coord) ==
  [generateTile(coord.q, coord.r, beaconCoord) EXCEPT
     !.type = rolledType(HashMod(tileHash(coord.q, coord.r), 10000))]

\* generateTile(coord.q, coord.r, beaconCoord)
Generated(coord) == generateTile(coord.q, coord.r, beaconCoord)

(***************************************************************************)
(* The tile store: a Map from hexKey to tile.                              *)
(***************************************************************************)
\* Map.get(key) ?? fallback
MapGetOr(m, key, fallback) == IF key \in DOMAIN m THEN m[key] ELSE fallback

\* Map.set(key, value) on a copy of m
MapSet(m, key, value) ==
  IF key \in DOMAIN m THEN [m EXCEPT ![key] = value] ELSE (key :> value) @@ m

\* hydratedTile writing shouldReveal over the revealed flag.
hydratedTileOverwrites(next, center, revealRadius, coord) ==
  LET key == KeyOf(coord)
      distance == hexDistance(center, coord)
      shouldReveal == distance <= revealRadius
      existing == MapGetOr(next, key, Generated(coord))
  IN  [existing EXCEPT !.revealed = shouldReveal,
                       !.explored = existing.explored \/ distance = 0]

\* hydratedTile leaving the revealed flag as it finds it.
hydratedTileHidden(next, center, revealRadius, coord) ==
  LET key == KeyOf(coord)
      distance == hexDistance(center, coord)
      existing == MapGetOr(next, key, Generated(coord))
  IN  [existing EXCEPT !.explored = existing.explored \/ distance = 0]

\* The tile that the forEach of hydrateTiles sets for one coord.
hydratedTile(next, center, revealRadius, coord) ==
  LET key == KeyOf(coord)
      distance == hexDistance(center, coord)
      shouldReveal == distance <= revealRadius
      existing == MapGetOr(next, key, Generated(coord))
  IN  [existing EXCEPT !.revealed = existing.revealed \/ shouldReveal,
                       !.explored = existing.explored \/ distance = 0]

\* hydrateTiles generating one ring short of the radius.
hydrateTilesNarrow(prev, center, radius, revealRadius) ==
  LET set == {KeyOf(c) : c \in Disk(center, radius - 1)}
  IN  [k \in DOMAIN prev \cup set |->
         IF k \in set THEN hydratedTile(prev, center, revealRadius, parseHexKey(k)) ELSE prev[k]]

\* coords.forEach(...) on next = new Map(prev): every pass sets the key of
\* its own coord, so each key ends as the pass for its coord leaves it.
hydrateTiles(prev, center, radius, revealRadius) ==
  LET set == {KeyOf(c) : c \in Disk(center, radius)}
  IN  [k \in DOMAIN prev \cup set |->
         IF k \in set THEN hydratedTile(prev, center, revealRadius, parseHexKey(k)) ELSE prev[k]]

\* revealedTile generating the tile anew.
revealedTileRegenerated(next, coord) == [Generated(coord) EXCEPT !.revealed = TRUE]

\* The tile that the forEach of revealPulse sets for one coord.
revealedTile(next, coord) ==
  LET existing == MapGetOr(next, KeyOf(coord), Generated(coord))
  IN  [existing EXCEPT !.revealed = TRUE]

\* revealPulse stopping one ring short of the radius.
revealPulseShort(prev, center, radius) == hydrateTiles(prev, center, radius, radius - 1)

revealPulse(prev, center, radius) ==
  LET set == {KeyOf(c) : c \in Disk(center, radius)}
  IN  [k \in DOMAIN prev \cup set |->
         IF k \in set THEN revealedTile(prev, parseHexKey(k)) ELSE prev[k]]

(***************************************************************************)
(* The viewport culler of components/canvas/HexCanvas: the visibleTiles    *)
(* memo, from the center hex on.  The zoom is the fraction num / den.      *)
(***************************************************************************)
\* Math.ceil(numerator / denominator), denominator > 0.
MathCeil(numerator, denominator) == -((-numerator) \div denominator)

\* Math.ceil((maxDimension / viewState.zoom) / 80) + 2
cullRadius(containerWidth, containerHeight, zoom) ==
  LET maxDimension == Max(containerWidth, containerHeight)
  IN  MathCeil(maxDimension * zoom.den, zoom.num * 80) + 2

\* visibleTiles generating the tiles it does not find and keeping them.
visibleTilesGenerating(store, centerHex, containerWidth, containerHeight, zoom) ==
  LET radius == cullRadius(containerWidth, containerHeight, zoom)
      hexesInView == hexesInRadius(centerHex, radius)
      filled == [k \in {KeyOf(c) : c \in Disk(centerHex, radius)} |->
                   MapGetOr(store, k, Generated(parseHexKey(k)))] @@ store
  IN  [visible |-> [i \in DOMAIN hexesInView |->
                      [key |-> KeyOf(hexesInView[i]), tile |-> filled[KeyOf(hexesInView[i])]]],
       tiles |-> filled]

\* The array the memo returns: of the hexes in view, in their order, those
\* whose key tiles.get finds, each with its key and tile; and the Map as
\* the memo leaves it, which it only reads.
visibleTiles(store, centerHex, containerWidth, containerHeight, zoom) ==
  LET radius == cullRadius(containerWidth, containerHeight, zoom)
      hexesInView == hexesInRadius(centerHex, radius)
      found == SelectSeq(hexesInView, LAMBDA coord : KeyOf(coord) \in DOMAIN store)
  IN  [visible |-> [i \in DOMAIN found |->
                      [key |-> KeyOf(found[i]), tile |-> store[KeyOf(found[i])]]],
       tiles |-> store]

(***************************************************************************)
(* The handlers.  A handler reads the state captured by the render it was  *)
(* created in (snap) and queues updates; React applies the queued updates  *)
(* of one event in order, each to the result of the one before (st).       *)
(***************************************************************************)
Snapshot ==
  [player |-> player, inventory |-> inventory, tiles |-> tiles,
   selectedTile |-> selectedTile, hasWon |-> hasWon]

\* The updates object built by grantExplorationReward (absent keys are 0).
rewardUpdates(tile) ==
  LET none == [wood |-> 0, water |-> 0, ore |-> 0, relics |-> 0, supplies |-> 0]
      byType ==
        IF tile.type = "forest" THEN [none EXCEPT !.wood = 1]
        ELSE IF tile.type = "water" THEN [none EXCEPT !.water = 1]
        ELSE IF tile.type = "mountain" THEN [none EXCEPT !.ore = 1]
        ELSE IF tile.type = "desert" THEN [none EXCEPT !.supplies = 1]
        ELSE IF tile.type = "ruins" THEN [none EXCEPT !.relics = 1]
        ELSE IF tile.type = "plains" THEN [none EXCEPT !.supplies = 1]
        ELSE none
  IN  IF tile.feature = "cache" /\ ~tile.featureDiscovered
      THEN [byType EXCEPT !.supplies = @ + 2]
      ELSE byType

\* The setInventory updater of grantExplorationReward applied to prev.
grantExplorationReward(prev, tile) ==
  LET updates == rewardUpdates(tile)
  IN  [wood |-> prev.wood + updates.wood,
       water |-> prev.water + updates.water,
       ore |-> prev.ore + updates.ore,
       relics |-> prev.relics + updates.relics,
       supplies |-> prev.supplies + updates.supplies]

\* The tile handleTileClick looks at: tiles.get(key) ?? generateTile(...)
existingTileAt(snap, coords) == MapGetOr(snap.tiles, KeyOf(coords), Generated(coords))

\* moveAccepted without the passable check.
moveAcceptedAnyTerrain(snap, coords) ==
  LET distance == hexDistance(snap.player.position, coords)
      existingTile == existingTileAt(snap, coords)
  IN  /\ distance # 0
      /\ ~(distance > 1)
      /\ ~(snap.player.energy < existingTile.movementCost)

\* handleTileClick passes all four early returns.
moveAccepted(snap, coords) ==
  LET distance == hexDistance(snap.player.position, coords)
      existingTile == existingTileAt(snap, coords)
  IN  /\ distance # 0
      /\ ~(distance > 1)
      /\ existingTile.passable
      /\ ~(snap.player.energy < existingTile.movementCost)

\* movedPlayer without the floor at 0.
movedPlayerUnfloored(prev, existingTile, coords) ==
  [prev EXCEPT !.position = coords,
               !.energy = prev.energy - existingTile.movementCost]

\* The setPlayer updater of handleTileClick applied to prev.
movedPlayer(prev, existingTile, coords) ==
  [prev EXCEPT !.position = coords,
               !.energy = Max(prev.energy - existingTile.movementCost, 0)]

\* The tile the setTiles updater of handleTileClick stores.
visitedTile(current) ==
  [current EXCEPT
     !.revealed = TRUE,
     !.explored = TRUE,
     !.featureDiscovered =
        IF current.feature = "cache" \/ current.type = "beacon" THEN TRUE ELSE @]

\* wonAfter without the setHasWon call.
wonAfterNever(snap, existingTile, prev) == prev

\* if (existingTile.type === 'beacon' && !hasWon) setHasWon(true)
wonAfter(snap, existingTile, prev) ==
  IF existingTile.type = "beacon" /\ ~snap.hasWon THEN TRUE ELSE prev

handleTileClick(snap, st, coords) ==
  LET key == KeyOf(coords)
      selected == [st EXCEPT !.selectedTile = key]
      existingTile == existingTileAt(snap, coords)
      wasExplored == existingTile.explored
      current == MapGetOr(selected.tiles, key, existingTile)
  IN  IF ~moveAccepted(snap, coords) THEN selected
      ELSE [selected EXCEPT
              !.player = movedPlayer(@, existingTile, coords),
              !.tiles = MapSet(@, key, visitedTile(current)),
              !.inventory = IF ~wasExplored THEN grantExplorationReward(@, existingTile) ELSE @,
              !.hasWon = wonAfter(snap, existingTile, @)]

\* handlePulse without the energy check.
handlePulseUnchecked(snap, st) ==
  [st EXCEPT !.player = [@ EXCEPT !.energy = Max(@ - PULSE_COST, 0)],
             !.tiles = revealPulse(@, snap.player.position, PULSE_RADIUS)]

handlePulse(snap, st) ==
  IF snap.player.energy < PULSE_COST THEN st
  ELSE [st EXCEPT !.player = [@ EXCEPT !.energy = Max(@ - PULSE_COST, 0)],
                  !.tiles = revealPulse(@, snap.player.position, PULSE_RADIUS)]

\* handleRest without the settlement branch.
handleRestCampOnly(snap, st) ==
  IF snap.inventory.wood < 1 THEN st
  ELSE [st EXCEPT !.inventory = [@ EXCEPT !.wood = Max(@ - 1, 0)],
                  !.player = [@ EXCEPT !.energy = Min(@ + CAMP_RECOVERY, st.player.maxEnergy)]]

\* handleRest with a camp that restores the energy in full.
handleRestFullCamp(snap, st) ==
  LET currentKey == KeyOf(snap.player.position)
      onSettlement == currentKey \in DOMAIN snap.tiles /\ snap.tiles[currentKey].type = "settlement"
  IN  IF onSettlement
      THEN [st EXCEPT !.player.energy = st.player.maxEnergy]
      ELSE IF snap.inventory.wood < 1 THEN st
      ELSE [st EXCEPT !.inventory = [@ EXCEPT !.wood = Max(@ - 1, 0)],
                      !.player.energy = st.player.maxEnergy]

handleRest(snap, st) ==
  LET currentKey == KeyOf(snap.player.position)
      onSettlement == currentKey \in DOMAIN snap.tiles /\ snap.tiles[currentKey].type = "settlement"
  IN  IF onSettlement
      THEN [st EXCEPT !.player.energy = st.player.maxEnergy]
      ELSE IF snap.inventory.wood < 1 THEN st
      ELSE [st EXCEPT !.inventory = [@ EXCEPT !.wood = Max(@ - 1, 0)],
                      !.player = [@ EXCEPT !.energy = Min(@ + CAMP_RECOVERY, st.player.maxEnergy)]]

\* handleBuildOutpost passes its early returns.
buildAccepted(snap) ==
  /\ snap.selectedTile # Null
  /\ ~(hexDistance(snap.player.position, parseHexKey(snap.selectedTile)) > 1)
  /\ ~(\/ snap.inventory.wood < OUTPOST_COST.wood
       \/ snap.inventory.ore < OUTPOST_COST.ore
       \/ snap.inventory.water < OUTPOST_COST.water)

\* handleBuildOutpost charging one wood too few.
handleBuildOutpostCheap(snap, st) ==
  IF ~buildAccepted(snap) THEN st
  ELSE LET coords == parseHexKey(snap.selectedTile)
           key == KeyOf(coords)
           current == MapGetOr(st.tiles, key, Generated(coords))
       IN  [st EXCEPT
              !.inventory = [@ EXCEPT !.wood = @ - 1,
                                      !.ore = @ - OUTPOST_COST.ore,
                                      !.water = @ - OUTPOST_COST.water],
              !.tiles = MapSet(@, key,
                               [current EXCEPT !.type = "settlement",
                                               !.revealed = TRUE,
                                               !.explored = TRUE,
                                               !.movementCost = 1,
                                               !.passable = TRUE,
                                               !.feature = Undefined,
                                               !.featureDiscovered = FALSE])]

\* handleBuildOutpost leaving the movement cost of the terrain built over.
handleBuildOutpostKeepsCost(snap, st) ==
  IF ~buildAccepted(snap) THEN st
  ELSE LET coords == parseHexKey(snap.selectedTile)
           key == KeyOf(coords)
           current == MapGetOr(st.tiles, key, Generated(coords))
       IN  [st EXCEPT
              !.inventory = [@ EXCEPT !.wood = @ - OUTPOST_COST.wood,
                                      !.ore = @ - OUTPOST_COST.ore,
                                      !.water = @ - OUTPOST_COST.water],
              !.tiles = MapSet(@, key,
                               [current EXCEPT !.type = "settlement",
                                               !.revealed = TRUE,
                                               !.explored = TRUE,
                                               !.passable = TRUE,
                                               !.feature = Undefined,
                                               !.featureDiscovered = FALSE])]

handleBuildOutpost(snap, st) ==
  IF ~buildAccepted(snap) THEN st
  ELSE LET coords == parseHexKey(snap.selectedTile)
           key == KeyOf(coords)
           current == MapGetOr(st.tiles, key, Generated(coords))
       IN  [st EXCEPT
              !.inventory = [@ EXCEPT !.wood = @ - OUTPOST_COST.wood,
                                      !.ore = @ - OUTPOST_COST.ore,
                                      !.water = @ - OUTPOST_COST.water],
              !.tiles = MapSet(@, key,
                               [current EXCEPT !.type = "settlement",
                                               !.revealed = TRUE,
                                               !.explored = TRUE,
                                               !.movementCost = 1,
                                               !.passable = TRUE,
                                               !.feature = Undefined,
                                               !.featureDiscovered = FALSE])]

\* canBuildOutpost without the distance check.
canBuildOutpostAnyDistance(snap) ==
  /\ snap.selectedTile # Null
  /\ snap.selectedTile \in DOMAIN snap.tiles
  /\ snap.tiles[snap.selectedTile].passable
  /\ snap.tiles[snap.selectedTile].type \notin {"settlement", "beacon"}
  /\ snap.inventory.wood >= OUTPOST_COST.wood
  /\ snap.inventory.ore >= OUTPOST_COST.ore
  /\ snap.inventory.water >= OUTPOST_COST.water

\* canBuildOutpost letting the beacon tile through.
canBuildOutpostOnBeacon(snap) ==
  /\ snap.selectedTile # Null
  /\ snap.selectedTile \in DOMAIN snap.tiles
  /\ snap.tiles[snap.selectedTile].passable
  /\ snap.tiles[snap.selectedTile].type # "settlement"
  /\ hexDistance(snap.player.position, parseHexKey(snap.selectedTile)) = 1
  /\ snap.inventory.wood >= OUTPOST_COST.wood
  /\ snap.inventory.ore >= OUTPOST_COST.ore
  /\ snap.inventory.water >= OUTPOST_COST.water

\* The useMemo behind the disabled attribute of the Build Outpost button.
canBuildOutpost(snap) ==
  /\ snap.selectedTile # Null
  /\ snap.selectedTile \in DOMAIN snap.tiles
  /\ snap.tiles[snap.selectedTile].passable
  /\ snap.tiles[snap.selectedTile].type \notin {"settlement", "beacon"}
  /\ hexDistance(snap.player.position, parseHexKey(snap.selectedTile)) = 1
  /\ snap.inventory.wood >= OUTPOST_COST.wood
  /\ snap.inventory.ore >= OUTPOST_COST.ore
  /\ snap.inventory.water >= OUTPOST_COST.water

(***************************************************************************)
(* Values the render derives from the state.                               *)
(***************************************************************************)
\* Math.round(numerator / denominator), denominator > 0: the integer
\* nearest to the quotient, a half rounding up.
MathRound(numerator, denominator) == (2 * numerator + denominator) \div (2 * denominator)

distanceToBeacon == hexDistance(player.position, beaconCoord)

\* signalStrength without the Math.max(0, ...)
signalStrengthUnclamped == MathRound(100 - distanceToBeacon * 6, 1)

signalStrength == Max(0, MathRound(100 - distanceToBeacon * 6, 1))

(***************************************************************************)
(* The session: the state after the first render, the effect and the       *)
(* input events.                                                           *)
(***************************************************************************)
Mounted ==
  /\ player = [position |-> Coord(0, 0), energy |-> BASE_ENERGY, maxEnergy |-> BASE_ENERGY]
  /\ inventory = [wood |-> 0, water |-> 0, ore |-> 0, relics |-> 0, supplies |-> 0]
  /\ tiles = << >>
  /\ selectedTile = Null
  /\ hasWon = FALSE
  /\ effectPending = TRUE

Init ==
  /\ Mounted
  /\ call = << >>
  /\ returned = << >>

\* React commits the state left by the queued updates of one event; the
\* effect on [hydrateTiles, player.position] is scheduled when the position
\* object was replaced.
Commit(st) ==
  /\ player' = st.player
  /\ inventory' = st.inventory
  /\ tiles' = st.tiles
  /\ selectedTile' = st.selectedTile
  /\ hasWon' = st.hasWon
  /\ effectPending' = (st.player.position # player.position)
  /\ UNCHANGED <<call, returned>>

\* No input is handled before the pending effect has run, and the
\* "Beacon Secured" overlay covers the canvas and the buttons while hasWon.
Interactive == ~effectPending /\ ~hasWon

\* The hydrate effect granting the exploration reward of the tile it marks
\* explored.
HydrateEffectRewarding ==
  /\ effectPending
  /\ tiles' = hydrateTiles(tiles, player.position, GENERATION_RADIUS, VISION_RADIUS)
  /\ effectPending' = FALSE
  /\ inventory' = grantExplorationReward(inventory, existingTileAt(Snapshot, player.position))
  /\ UNCHANGED <<player, selectedTile, hasWon, call, returned>>

\* useEffect(() => hydrateTiles(player.position, GENERATION_RADIUS, VISION_RADIUS))
HydrateEffect ==
  /\ effectPending
  /\ tiles' = hydrateTiles(tiles, player.position, GENERATION_RADIUS, VISION_RADIUS)
  /\ effectPending' = FALSE
  /\ UNCHANGED <<player, inventory, selectedTile, hasWon, call, returned>>

\* A tap, or a click whose press moved the pointer: onTileClick runs once.
TouchEnd(c) ==
  /\ Interactive
  /\ Commit(handleTileClick(Snapshot, Snapshot, c))

\* A mouse click on a rendered tile: the tile's onClick calls onTileClick,
\* the event bubbles to the container, whose handleCanvasClick calls
\* onTileClick again for the hex under the pointer; both calls come from
\* the same render. Where no tile is rendered only the container's runs.
Click(c) ==
  /\ Interactive
  /\ IF KeyOf(c) \in DOMAIN tiles
     THEN Commit(handleTileClick(Snapshot, handleTileClick(Snapshot, Snapshot, c), c))
     ELSE Commit(handleTileClick(Snapshot, Snapshot, c))

Pulse ==
  /\ Interactive
  /\ Commit(handlePulse(Snapshot, Snapshot))

Rest ==
  /\ Interactive
  /\ Commit(handleRest(Snapshot, Snapshot))

\* The Build Outpost button: disabled unless canBuildOutpost.
BuildOutpost ==
  /\ Interactive
  /\ IF canBuildOutpost(Snapshot)
     THEN Commit(handleBuildOutpost(Snapshot, Snapshot))
     ELSE UNCHANGED vars

\* The Keep Exploring button of the overlay: setHasWon(false)
KeepExploring ==
  /\ hasWon
  /\ ~effectPending
  /\ hasWon' = FALSE
  /\ UNCHANGED <<player, inventory, tiles, selectedTile, effectPending, call, returned>>

(***************************************************************************)
(* Play at home: the user taps and clicks the home hexes within ClickReach *)
(* of the explorer, pulses and rests.                                      *)
(***************************************************************************)
HomeTargets == {c \in HomeCells : hexDistance(player.position, c) <= ClickReach}

Next ==
  \/ HydrateEffect
  \/ \E c \in HomeTargets : TouchEnd(c)
  \/ \E c \in HomeTargets : Click(c)
  \/ Pulse
  \/ Rest

Spec == Init /\ [][Next]_vars

(***************************************************************************)
(* The trek: the user taps the next hex of the trail; standing in a camp   *)
(* they also tap and click the camp's hexes within ClickReach, pulse and   *)
(* rest.                                                                   *)
(***************************************************************************)
NextOnTrail ==
  {Trail[i + 1] : i \in {j \in 1..(Len(Trail) - 1) : Trail[j] = player.position}}

CampTargets ==
  IF player.position \in Camps
  THEN {c \in Camps : hexDistance(player.position, c) <= ClickReach}
  ELSE {}

NextTrek ==
  \/ HydrateEffect
  \/ \E c \in NextOnTrail \cup CampTargets : TouchEnd(c)
  \/ \E c \in CampTargets : Click(c)
  \/ player.position \in Camps /\ Pulse
  \/ player.position \in Camps /\ Rest
  \/ BuildOutpost
  \/ KeepExploring

SpecTrek == Init /\ [][NextTrek]_vars

(***************************************************************************)
(* The outpost errand: the user taps a hex that follows the explorer's on  *)
(* the errand and rests at the origin; standing in the outpost camp they   *)
(* also tap and click the camp's hexes within ClickReach, pulse and rest;  *)
(* they press Build Outpost at any time.                                   *)
(***************************************************************************)
NextOnErrand ==
  {Errand[i + 1] : i \in {j \in 1..(Len(Errand) - 1) : Errand[j] = player.position}}

OutpostTargets ==
  IF player.position \in OutpostCamp
  THEN {c \in OutpostCamp : hexDistance(player.position, c) <= ClickReach}
  ELSE {}

NextOutpost ==
  \/ HydrateEffect
  \/ \E c \in NextOnErrand \cup OutpostTargets : TouchEnd(c)
  \/ \E c \in OutpostTargets : Click(c)
  \/ player.position \in OutpostCamp /\ Pulse
  \/ player.position \in OutpostCamp \cup {Coord(0, 0)} /\ Rest
  \/ BuildOutpost

SpecOutpost == Init /\ [][NextOutpost]_vars

(***************************************************************************)
(* The pilgrimage: the user taps or clicks the hex that follows the        *)
(* explorer's on the pilgrimage, rests anywhere, pulses beside the beacon  *)
(* and presses Build Outpost at any time.                                  *)
(***************************************************************************)
NextOnPilgrimage ==
  {Pilgrimage[i + 1] : i \in {j \in 1..(Len(Pilgrimage) - 1) : Pilgrimage[j] = player.position}}

NextPilgrim ==
  \/ HydrateEffect
  \/ \E c \in NextOnPilgrimage : TouchEnd(c)
  \/ \E c \in NextOnPilgrimage : Click(c)
  \/ Rest
  \/ player.position = BeaconApproach /\ Pulse
  \/ BuildOutpost

SpecPilgrim == Init /\ [][NextPilgrim]_vars

(***************************************************************************)
(* The signal walk: the trek to the beacon, or from the origin the retreat *)
(* away from it, the user tapping or clicking the hex that follows the     *)
(* explorer's.                                                             *)
(***************************************************************************)
NextOnRetreat ==
  {Retreat[i + 1] : i \in {j \in 1..(Len(Retreat) - 1) : Retreat[j] = player.position}}

NextSignal ==
  \/ NextTrek
  \/ \E c \in NextOnRetreat : TouchEnd(c)
  \/ \E c \in NextOnRetreat : Click(c)

SpecSignal == Init /\ [][NextSignal]_vars

(***************************************************************************)
(* The expedition: the user walks the trail to the beacon with a budget.   *)
(* They tap or click the hex that follows the explorer's, camp with wood   *)
(* and pulse, and give only inputs that are accepted and that leave the    *)
(* energy in hand and in the wood carried or still to be gathered enough   *)
(* for the rest of the trail.                                              *)
(***************************************************************************)
\* The movement costs handleTileClick will charge from Trail[i] onwards.
RECURSIVE trailCost(_, _)
trailCost(st, i) ==
  IF i > Len(Trail) THEN 0
  ELSE existingTileAt(st, Trail[i]).movementCost + trailCost(st, i + 1)

\* The wood grantExplorationReward will give on the trail from Trail[i] onwards.
woodAhead(st, i) ==
  Cardinality({j \in i..Len(Trail) :
                 LET tile == existingTileAt(st, Trail[j])
                 IN  tile.type = "forest" /\ ~tile.explored})

\* The explorer of st is on the trail with enough energy, in hand and in
\* the wood carried or still to be gathered, for the rest of it.
OnCourse(st) ==
  /\ \E i \in DOMAIN Trail : Trail[i] = st.player.position
  /\ LET next == 1 + CHOOSE i \in DOMAIN Trail : Trail[i] = st.player.position
     IN  st.player.energy + CAMP_RECOVERY * (st.inventory.wood + woodAhead(st, next))
           >= trailCost(st, next)

\* The state the queued updates of a mouse click on c leave.
clicked(c) ==
  IF KeyOf(c) \in DOMAIN tiles
  THEN handleTileClick(Snapshot, handleTileClick(Snapshot, Snapshot, c), c)
  ELSE handleTileClick(Snapshot, Snapshot, c)

\* The inputs of the plan: accepted, and leaving the explorer on course.
MayTap(c) ==
  Interactive /\ moveAccepted(Snapshot, c) /\ OnCourse(handleTileClick(Snapshot, Snapshot, c))

MayClick(c) == Interactive /\ moveAccepted(Snapshot, c) /\ OnCourse(clicked(c))

MayCamp ==
  /\ Interactive
  /\ existingTileAt(Snapshot, player.position).type # "settlement"
  /\ ~(inventory.wood < 1)
  /\ OnCourse(handleRest(Snapshot, Snapshot))

MaySurvey ==
  /\ Interactive
  /\ ~(player.energy < PULSE_COST)
  /\ OnCourse(handlePulse(Snapshot, Snapshot))

NextExpedition ==
  \/ HydrateEffect
  \/ \E c \in NextOnTrail : MayTap(c) /\ TouchEnd(c)
  \/ \E c \in NextOnTrail : MayClick(c) /\ Click(c)
  \/ MayCamp /\ Rest
  \/ MaySurvey /\ Pulse

\* Some step of the expedition can be taken: an effect is pending or an
\* input of the plan is left.
PlanLeft ==
  \/ effectPending
  \/ \E c \in NextOnTrail : MayTap(c) \/ MayClick(c)
  \/ MayCamp
  \/ MaySurvey

\* React runs a pending effect, and the user goes on giving the inputs of
\* the plan for as long as one of them is left: weak fairness on
\* NextExpedition, written with PlanLeft for its enabling condition; every
\* step of the expedition changes vars.
SpecExpedition ==
  Init /\ [][NextExpedition]_vars /\ ([]<>(~PlanLeft) \/ []<><<NextExpedition>>_vars)

(***************************************************************************)
(* hexRound of lib/hexMath.  The fractional coordinates are qn / den and   *)
(* rn / den; the rounding errors are compared as multiples of 1 / den.     *)
(***************************************************************************)
\* hexRound testing r before q.
hexRoundRFirst(qn, rn, den) ==
  LET sn == -qn - rn
      rq == MathRound(qn, den)
      rr == MathRound(rn, den)
      rs == MathRound(sn, den)
      qDiff == Abs(rq * den - qn)
      rDiff == Abs(rr * den - rn)
      sDiff == Abs(rs * den - sn)
  IN  IF rDiff > qDiff /\ rDiff > sDiff THEN Coord(rq, -rq - rs)
      ELSE IF qDiff > sDiff THEN Coord(-rr - rs, rr)
      ELSE Coord(rq, rr)

hexRound(qn, rn, den) ==
  LET sn == -qn - rn
      rq == MathRound(qn, den)
      rr == MathRound(rn, den)
      rs == MathRound(sn, den)
      qDiff == Abs(rq * den - qn)
      rDiff == Abs(rr * den - rn)
      sDiff == Abs(rs * den - sn)
  IN  IF qDiff > rDiff /\ qDiff > sDiff THEN Coord(-rr - rs, rr)
      ELSE IF rDiff > sDiff THEN Coord(rq, -rq - rs)
      ELSE Coord(rq, rr)

(***************************************************************************)
(* The library on its own: one call of a hexMath function, with arguments  *)
(* drawn from bounded sets; the game does not run.                         *)
(***************************************************************************)
KeyReach == 12

KeyNumbers == -KeyReach..KeyReach

KeyCalls == {[fn |-> "hexKey", q |-> q, r |-> r] : q \in KeyNumbers, r \in KeyNumbers}

\* Strings that are not two integers separated by one comma: "", "5",
\* "a,b", "7,x", "1,2,3", "," and "--1,2".
MalformedKeys ==
  { << >>,
    << "5" >>,
    << "a", ",", "b" >>,
    << "7", ",", "x" >>,
    << "1", ",", "2", ",", "3" >>,
    << "," >>,
    << "-", "-", "1", ",", "2" >> }

ParseCalls == {[fn |-> "parseHexKey", key |-> key] : key \in MalformedKeys}

DistanceReach == 2

\* The hexes with both coordinates within n of 0.
Cells(n) == {Coord(q, r) : q \in -n..n, r \in -n..n}

DistanceCalls ==
  {[fn |-> "hexDistance", a |-> a, b |-> b, c |-> c] :
     a \in Cells(DistanceReach - 1), b \in Cells(DistanceReach), c \in Cells(DistanceReach)}

RadiusReach == 6

RadiusCalls ==
  {[fn |-> "hexesInRadius", center |-> center, radius |-> radius] :
     center \in Cells(DistanceReach), radius \in 0..RadiusReach}

RingCalls ==
  {[fn |-> "hexRing", center |-> center, radius |-> radius] :
     center \in Cells(DistanceReach), radius \in 0..RadiusReach}

\* The store after the first hydration, and after the hydration that
\* follows a move to (0, -1).
StoreSamples ==
  LET first == hydrateTiles(<< >>, Coord(0, 0), GENERATION_RADIUS, VISION_RADIUS)
  IN  {first, hydrateTiles(first, Coord(0, -1), GENERATION_RADIUS, VISION_RADIUS)}

\* The zooms 0.5, 1 and 1.25.
ZoomSamples == {[num |-> 1, den |-> 2], [num |-> 1, den |-> 1], [num |-> 5, den |-> 4]}

CullCalls ==
  {[fn |-> "visibleTiles", tiles |-> store, centerHex |-> centerHex,
    containerWidth |-> width, containerHeight |-> height, zoom |-> zoom] :
     store \in StoreSamples, centerHex \in Cells(DistanceReach),
     width \in {1, 80, 200}, height \in {1, 120}, zoom \in ZoomSamples}

RoundReach == 2

\* Quarters: the fractional coordinates k / 4.
Quarter == 4

RoundCalls ==
  {[fn |-> "hexRound", qn |-> qn, rn |-> rn, den |-> Quarter] :
     qn \in (-Quarter * RoundReach)..(Quarter * RoundReach),
     rn \in (-Quarter * RoundReach)..(Quarter * RoundReach)}

InitHexMath ==
  /\ Mounted
  /\ returned = << >>
  /\ \/ call \in KeyCalls
     \/ call \in RoundCalls
     \/ call \in ParseCalls
     \/ call \in DistanceCalls
     \/ call \in RadiusCalls
     \/ call \in RingCalls
     \/ call \in CullCalls

\* The call returns value.
Returns(value) ==
  /\ returned = << >>
  /\ returned' = << value >>
  /\ UNCHANGED <<player, inventory, tiles, selectedTile, hasWon, effectPending, call>>

\* hexKey(q, r), and parseHexKey of the key it gave.
CallHexKey ==
  /\ call.fn = "hexKey"
  /\ LET key == hexKey(call.q, call.r)
     IN  Returns([key |-> key, parsed |-> parseHexKey(key)])

\* parseHexKey(key): split, map and the destructuring throw nothing, the
\* call returns the object it builds.
CallParseHexKey ==
  /\ call.fn = "parseHexKey"
  /\ Returns([threw |-> FALSE, value |-> parseHexKey(call.key)])

\* hexDistance on each pair of a, b and c, and the sum that the call on
\* (a, b) halves.
CallHexDistance ==
  /\ call.fn = "hexDistance"
  /\ Returns([aa |-> hexDistance(call.a, call.a),
              ab |-> hexDistance(call.a, call.b),
              ba |-> hexDistance(call.b, call.a),
              bc |-> hexDistance(call.b, call.c),
              ac |-> hexDistance(call.a, call.c),
              dividend |-> hexDistanceDividend(call.a, call.b)])

CallHexesInRadius ==
  /\ call.fn = "hexesInRadius"
  /\ Returns(hexesInRadius(call.center, call.radius))

CallHexRing ==
  /\ call.fn = "hexRing"
  /\ Returns(hexRing(call.center, call.radius))

\* The memo computed, and computed again on the Map the first run left.
CallVisibleTiles ==
  /\ call.fn = "visibleTiles"
  /\ LET first == visibleTiles(call.tiles, call.centerHex, call.containerWidth,
                               call.containerHeight, call.zoom)
         second == visibleTiles(first.tiles, call.centerHex, call.containerWidth,
                                call.containerHeight, call.zoom)
     IN  Returns([visible |-> first.visible, again |-> second.visible, tiles |-> second.tiles])

CallHexRound ==
  /\ call.fn = "hexRound"
  /\ Returns(hexRound(call.qn, call.rn, call.den))

NextHexMath ==
  \/ CallHexKey
  \/ CallHexRound
  \/ CallParseHexKey
  \/ CallHexDistance
  \/ CallHexesInRadius
  \/ CallHexRing
  \/ CallVisibleTiles

SpecHexMath == InitHexMath /\ [][NextHexMath]_vars

(***************************************************************************)
(* The generator on its own: one call of generateTile, made twice, for q   *)
(* and r drawn from KeyNumbers and the beacon at its place, at the origin  *)
(* or at (1, -1).                                                          *)
(***************************************************************************)
BeaconSamples == {beaconCoord, Coord(0, 0), Coord(1, -1)}

TileCalls ==
  {[fn |-> "generateTile", q |-> q, r |-> r, beacon |-> beacon] :
     q \in KeyNumbers, r \in KeyNumbers, beacon \in BeaconSamples}

InitGenerator ==
  /\ Mounted
  /\ returned = << >>
  /\ call \in TileCalls

\* generateTile(q, r, beacon) and the same call once more, with the hash it
\* computes.
CallGenerateTile ==
  /\ call.fn = "generateTile"
  /\ Returns([tile |-> generateTile(call.q, call.r, call.beacon),
              again |-> generateTile(call.q, call.r, call.beacon),
              hash |-> tileHash(call.q, call.r)])

NextGenerator ==
  \/ CallGenerateTile

SpecGenerator == InitGenerator /\ [][NextGenerator]_vars

(***************************************************************************)
(* Properties.                                                             *)
(***************************************************************************)
\* The tile a request for c looks at: the stored one, else the generated one.
TileAt(c) == existingTileAt(Snapshot, c)

\* The tile stored at c after the step.
TileAfter(c) == tiles'[KeyOf(c)]

Moved == player'.position # player.position

VoidHex == Coord(5, -7)

ForestHex == Coord(0, -2)

Resources == {"wood", "water", "ore", "relics", "supplies"}

\* C1: a step that moves the explorer takes them to a hex at distance 1
\* whose tile is passable and costs no more than the energy they hold; no
\* step takes them onto a void tile.
MoveOnlyWhenAllowed ==
  [][Moved =>
       LET tile == TileAt(player'.position)
       IN  /\ hexDistance(player.position, player'.position) = 1
           /\ tile.passable
           /\ player.energy >= tile.movementCost
           /\ tile.type # "void"]_vars

\* The void next to the explorer has been asked for with energy in hand,
\* and the explorer is still beside it.
VoidRefused ==
  /\ selectedTile = KeyOf(VoidHex)
  /\ hexDistance(player.position, VoidHex) = 1
  /\ player.energy >= TileAt(VoidHex).movementCost
  /\ TileAt(VoidHex).type = "void"

\* A move request for c that the contract rejects.
MoveRejected(c) ==
  LET distance == hexDistance(player.position, c)
      tile == TileAt(c)
  IN  distance = 0 \/ distance > 1 \/ ~tile.passable \/ player.energy < tile.movementCost

\* The build preconditions of the contract.
BuildAllowed ==
  /\ selectedTile # Null
  /\ hexDistance(player.position, parseHexKey(selectedTile)) = 1
  /\ TileAt(parseHexKey(selectedTile)).passable
  /\ TileAt(parseHexKey(selectedTile)).type \notin {"settlement", "beacon"}
  /\ inventory.wood >= 2 /\ inventory.ore >= 1 /\ inventory.water >= 1

RejectedRequest ==
  \/ \E c \in NextOnTrail \cup CampTargets : (TouchEnd(c) \/ Click(c)) /\ MoveRejected(c)
  \/ Rest /\ TileAt(player.position).type # "settlement" /\ inventory.wood = 0
  \/ Pulse /\ player.energy < 2
  \/ BuildOutpost /\ ~BuildAllowed

\* C2: a rejected move, rest, pulse or build leaves the explorer's position
\* and energy, the inventory, the tile store and hasWon as they were.
RejectionChangesNothing ==
  [][RejectedRequest => UNCHANGED <<player, inventory, tiles, hasWon>>]_vars

\* The void has been asked for and refused, and where the explorer stands
\* now a pulse, a rest and a build are refused too.
AllRefused ==
  /\ selectedTile = KeyOf(VoidHex)
  /\ player.position \in VoidCamp
  /\ Interactive
  /\ player.energy < 2
  /\ inventory.wood = 0
  /\ TileAt(player.position).type # "settlement"

\* C3: a step that moves the explorer to c lowers the energy by exactly the
\* movement cost of c, not below 0, and leaves c revealed and explored.
MoveCostsExactly ==
  [][Moved =>
       /\ player'.energy = player.energy - TileAt(player'.position).movementCost
       /\ player'.energy >= 0
       /\ TileAfter(player'.position).revealed
       /\ TileAfter(player'.position).explored]_vars

\* C4: a step that moves the explorer to c adds to each inventory count at
\* most the one exploration reward of c, and nothing when c was explored.
RewardAtMostOnce ==
  [][Moved =>
       LET tile == TileAt(player'.position)
       IN  /\ tile.explored => inventory' = inventory
           /\ \A res \in Resources :
                inventory'[res] - inventory[res] <= rewardUpdates(tile)[res]]_vars

\* No earlier step has moved the explorer onto c: c is unexplored, or it is
\* the origin, explored by the first hydration, with its cache still
\* undiscovered.
FirstMoveOnto(c) ==
  \/ ~TileAt(c).explored
  \/ c = Coord(0, 0) /\ ~TileAt(c).featureDiscovered

\* C5: the first move onto a tile adds exactly its terrain reward, plus 2
\* supplies for an undiscovered cache, and sets its featureDiscovered when
\* it carries a cache.
FirstMoveRewardExact ==
  [][Moved /\ FirstMoveOnto(player'.position) =>
       LET tile == TileAt(player'.position)
       IN  /\ inventory' = grantExplorationReward(inventory, tile)
           /\ tile.feature = "cache" => TileAfter(player'.position).featureDiscovered]_vars

\* C6: a step that moves the explorer onto the beacon sets hasWon, and no
\* step that moves the explorer turns hasWon from true to false.
BeaconMoveWins ==
  [][/\ Moved /\ player'.position = beaconCoord => hasWon'
     /\ Moved /\ hasWon => hasWon']_vars

\* The explorer stands on the beacon with the win recorded.
BeaconSecured == player.position = beaconCoord /\ hasWon

\* The beacon tile is explored exactly when a move onto it has been applied,
\* which is when hasWon has been true before.
HasWonBefore ==
  /\ KeyOf(beaconCoord) \in DOMAIN tiles
  /\ tiles[KeyOf(beaconCoord)].explored

\* C7: once hasWon has been true, no step turns it from false to true.
WinTriggeredOnce == [][~(HasWonBefore /\ ~hasWon /\ hasWon')]_vars

OnSettlement == TileAt(player.position).type = "settlement"

CampRestCostsWood ==
  [][Rest /\ ~OnSettlement =>
       IF inventory.wood >= 1
       THEN /\ inventory' = [inventory EXCEPT !.wood = @ - 1]
            /\ player' = [player EXCEPT !.energy = Min(@ + 4, player.maxEnergy)]
            /\ UNCHANGED <<tiles, selectedTile, hasWon, effectPending>>
       ELSE UNCHANGED vars]_vars

\* Off the settlement, the forest's wood burnt and the energy below the
\* maximum: a camp has been made and the next rest is refused.
CampMade ==
  /\ ~OnSettlement
  /\ Interactive
  /\ tiles[KeyOf(ForestHex)].explored
  /\ inventory.wood = 0
  /\ player.energy < player.maxEnergy

\* C10: a pulse with energy >= 2 takes exactly 2 energy and leaves every hex
\* within distance 4 of the explorer stored and revealed; it changes no
\* explored flag, no inventory count, not the position and not hasWon.
PulseRevealsOnly ==
  [][Pulse /\ player.energy >= 2 =>
       /\ player'.energy = player.energy - 2
       /\ \A c \in Disk(player.position, 4) :
            KeyOf(c) \in DOMAIN tiles' /\ tiles'[KeyOf(c)].revealed
       /\ \A k \in DOMAIN tiles' :
            tiles'[k].explored = (k \in DOMAIN tiles /\ tiles[k].explored)
       /\ inventory' = inventory
       /\ player'.position = player.position
       /\ hasWon' = hasWon]_vars

\* A hex at distance 4 of the origin, further than 2 from every home hex,
\* is revealed and unexplored, the explorer at the origin 2 energy short.
PulsedAtOrigin ==
  /\ player.position = Coord(0, 0)
  /\ player.energy = BASE_ENERGY - PULSE_COST
  /\ KeyOf(Coord(4, 0)) \in DOMAIN tiles
  /\ tiles[KeyOf(Coord(4, 0))].revealed
  /\ ~tiles[KeyOf(Coord(4, 0))].explored

MountainHex == Coord(5, -2)

CacheHex == Coord(7, -2)

\* A press of Build Outpost that changed the store or the inventory.
BuildApplied == BuildOutpost /\ ~UNCHANGED <<tiles, inventory>>

BuildEffectExact ==
  [][BuildApplied =>
       /\ inventory' = [inventory EXCEPT !.wood = @ - 2, !.ore = @ - 1, !.water = @ - 1]
       /\ tiles'[selectedTile].type = "settlement"
       /\ tiles'[selectedTile].movementCost = 1
       /\ tiles'[selectedTile].passable
       /\ tiles'[selectedTile].feature = Undefined
       /\ player' = player
       /\ hasWon' = hasWon
       /\ DOMAIN tiles' = DOMAIN tiles
       /\ \A k \in DOMAIN tiles \ {selectedTile} : tiles'[k] = tiles[k]]_vars

\* The cache hex has become a settlement without feature, paid for with the
\* last wood, ore and water.
OutpostOnCache ==
  /\ KeyOf(CacheHex) \in DOMAIN tiles
  /\ tiles[KeyOf(CacheHex)].type = "settlement"
  /\ tiles[KeyOf(CacheHex)].feature = Undefined
  /\ inventory.wood = 0 /\ inventory.ore = 0 /\ inventory.water = 0

\* C13: the energy is within 0..maxEnergy, maxEnergy is 12 and every
\* inventory count is a natural number.
EnergyAndCountsInRange ==
  /\ player.energy \in 0..player.maxEnergy
  /\ player.maxEnergy = 12
  /\ \A res \in Resources : inventory[res] \in Nat

\* An outpost stands beside the camp, the build has taken the last wood,
\* ore and water, and the energy is spent.
SpentAfterBuild ==
  /\ \E c \in OutpostCamp : KeyOf(c) \in DOMAIN tiles /\ tiles[KeyOf(c)].type = "settlement"
  /\ inventory.wood = 0 /\ inventory.ore = 0 /\ inventory.water = 0
  /\ player.energy = 0

\* C14: only the tile at beaconCoord has type beacon, beaconCoord is at
\* distance 12 of the origin, and the tile stored at beaconCoord has type
\* beacon.
OneBeacon ==
  /\ hexDistance(Coord(0, 0), beaconCoord) = 12
  /\ \A k \in DOMAIN tiles : tiles[k].type = "beacon" => k = KeyOf(beaconCoord)
  /\ KeyOf(beaconCoord) \in DOMAIN tiles => tiles[KeyOf(beaconCoord)].type = "beacon"

\* The explorer stands beside the beacon, spent, with the beacon selected
\* by a refused tap and the wood, ore and water of an outpost in hand.
BeaconSelectedForBuild ==
  /\ player.position = BeaconApproach
  /\ player.energy = 0
  /\ selectedTile = KeyOf(beaconCoord)
  /\ inventory.wood >= 2 /\ inventory.ore >= 1 /\ inventory.water >= 1
  /\ tiles[KeyOf(beaconCoord)].type = "beacon"

\* C15: the tile stored at the origin has type settlement.
OriginIsSettlement ==
  KeyOf(Coord(0, 0)) \in DOMAIN tiles => tiles[KeyOf(Coord(0, 0))].type = "settlement"

\* The origin is stored as a settlement, the explorer has moved back onto
\* it (its cache is marked discovered) and has pulsed and built since.
OriginAfterErrand ==
  /\ KeyOf(Coord(0, 0)) \in DOMAIN tiles
  /\ tiles[KeyOf(Coord(0, 0))].type = "settlement"
  /\ tiles[KeyOf(Coord(0, 0))].featureDiscovered
  /\ KeyOf(Coord(10, -2)) \in DOMAIN tiles
  /\ tiles[KeyOf(Coord(10, -2))].revealed
  /\ \E c \in OutpostCamp : tiles[KeyOf(c)].type = "settlement"

\* C16: no step removes a tile or turns a revealed or explored flag from
\* true to false.
FlagsNeverCleared ==
  [][\A k \in DOMAIN tiles :
       /\ k \in DOMAIN tiles'
       /\ tiles[k].revealed => tiles'[k].revealed
       /\ tiles[k].explored => tiles'[k].explored]_vars

\* The explorer stands on the outpost built on the mountain, hydrated, with
\* a pulse from there showing on a hex 4 away that no other stand reveals.
PulsedFromOutpost ==
  /\ player.position = MountainHex
  /\ ~effectPending
  /\ tiles[KeyOf(MountainHex)].type = "settlement"
  /\ tiles[KeyOf(Coord(5, 2))].revealed

\* C17: every explored tile of the store is revealed.
ExploredImpliesRevealed ==
  \A k \in DOMAIN tiles : tiles[k].explored => tiles[k].revealed

\* The mountain was built on without the explorer having stood on it (it
\* kept its ore), and is explored and revealed.
UnvisitedOutpostShown ==
  /\ KeyOf(MountainHex) \in DOMAIN tiles
  /\ tiles[KeyOf(MountainHex)].type = "settlement"
  /\ tiles[KeyOf(MountainHex)].explored
  /\ tiles[KeyOf(MountainHex)].revealed
  /\ player.position = Coord(6, -2)

\* Once the effect has run, the tile the explorer stands on is explored.
StandingTileExplored ==
  ~effectPending =>
    /\ KeyOf(player.position) \in DOMAIN tiles
    /\ tiles[KeyOf(player.position)].explored

\* C18: a tile is explored only if the explorer has stood on it: a tile
\* that a step marks explored is the one the explorer stands on before or
\* after the step (a tile stood on earlier is explored already).
ExploredOnlyWhereStood ==
  [][\A k \in DOMAIN tiles' :
       tiles'[k].explored /\ ~(k \in DOMAIN tiles /\ tiles[k].explored)
         => k \in {KeyOf(player.position), KeyOf(player'.position)}]_vars

\* C19: no step turns a featureDiscovered flag from true to false.
FeatureDiscoveredNeverCleared ==
  [][\A k \in DOMAIN tiles :
       tiles[k].featureDiscovered => k \in DOMAIN tiles' /\ tiles'[k].featureDiscovered]_vars

\* C20: the hydrate effect and the pulse keep every key of the store and,
\* on a tile already stored, change nothing but revealed and explored, and
\* these only from false to true.
RevealKeepsTiles ==
  [][(HydrateEffect \/ Pulse) =>
       \A k \in DOMAIN tiles :
         /\ k \in DOMAIN tiles'
         /\ tiles'[k] = [tiles[k] EXCEPT !.revealed = tiles'[k].revealed,
                                         !.explored = tiles'[k].explored]
         /\ tiles[k].revealed => tiles'[k].revealed
         /\ tiles[k].explored => tiles'[k].explored]_vars

\* The explorer has moved onto the outpost built on the mountain, the
\* effect has hydrated around it and a pulse from it shows on the map, and
\* the outpost is still the settlement the build made of it.
OutpostKeptByReveal ==
  /\ player.position = MountainHex
  /\ ~effectPending
  /\ tiles[KeyOf(Coord(5, 2))].revealed
  /\ tiles[KeyOf(MountainHex)].type = "settlement"
  /\ tiles[KeyOf(MountainHex)].movementCost = 1
  /\ tiles[KeyOf(Coord(0, 0))].featureDiscovered

\* The hexes of the square of side 2 * n + 1 around center: every hex within
\* distance n of center is one of them.
Box(center, n) == {Coord(center.q + dq, center.r + dr) : dq \in -n..n, dr \in -n..n}

\* Every hex within genRadius of center has a tile in store, those within
\* revealRadius are revealed and the tile of center is explored.
HydratedAround(store, center, genRadius, revealRadius) ==
  /\ \A c \in Box(center, genRadius + 1) :
        /\ hexDistance(center, c) <= genRadius => KeyOf(c) \in DOMAIN store
        /\ hexDistance(center, c) <= revealRadius => store[KeyOf(c)].revealed
  /\ store[KeyOf(center)].explored

\* The hydrate effect leaves every hex within GENERATION_RADIUS of the
\* explorer in the store, those within VISION_RADIUS revealed and the
\* explorer's tile explored.
HydrateCovers ==
  [][HydrateEffect =>
       HydratedAround(tiles', player.position, GENERATION_RADIUS, VISION_RADIUS)]_vars

\* Whenever the effect for the current position has run, all tiles within
\* 6 of the explorer exist and all within 2 are revealed, and each of the
\* six adjacent tiles is in the store.
HydratedWhenIdle ==
  ~effectPending =>
    /\ HydratedAround(tiles, player.position, GENERATION_RADIUS, VISION_RADIUS)
    /\ \A i \in 1..6 :
          KeyOf(Coord(player.position.q + HEX_DIRECTIONS[i].q,
                      player.position.r + HEX_DIRECTIONS[i].r)) \in DOMAIN tiles

\* C21: the hydrate effect puts every hex within GENERATION_RADIUS of the
\* explorer in the store, reveals those within VISION_RADIUS and marks the
\* explorer's tile explored; hence whenever the effect for the current
\* position has run (the only time a move can be asked) the tiles within 6
\* exist, those within 2 are revealed and the adjacent tiles are stored.
HydrationContract == HydrateCovers /\ []HydratedWhenIdle

\* The explorer has walked four hexes up the trail and the effect has run
\* there: the hex six further north, out of reach of every earlier
\* hydration, is in the store.
HydratedUpTheTrail ==
  /\ player.position = Coord(2, -4)
  /\ ~effectPending
  /\ KeyOf(Coord(2, -10)) \in DOMAIN tiles
  /\ tiles[KeyOf(Coord(2, -6))].revealed

\* C22: hydration for the new position comes before the culler reads the
\* store for a move: the store committed by a step that moves the explorer,
\* which is the store the render of the new position hands to the culler,
\* holds every tile within GENERATION_RADIUS of the new position.
CullerReadsHydratedStore ==
  [][Moved =>
       \A c \in Box(player'.position, GENERATION_RADIUS + 1) :
         hexDistance(player'.position, c) <= GENERATION_RADIUS => KeyOf(c) \in DOMAIN tiles']_vars

\* The explorer is at the origin with full energy, empty-handed, and has
\* not won.
FreshStart ==
  /\ player = [position |-> Coord(0, 0), energy |-> 12, maxEnergy |-> 12]
  /\ \A res \in Resources : inventory[res] = 0
  /\ hasWon = FALSE

\* C24: the state before any tile is stored (the initial state) and the
\* state that the step out of it, the initial hydration, leads to both
\* have the explorer at (0,0) with energy = maxEnergy = 12, every
\* inventory count 0 and hasWon false.
StartsFresh == [](tiles = << >> => FreshStart) /\ [][tiles = << >> => FreshStart']_vars

\* The initial hydration has run and nothing else has happened: the origin
\* is the one explored tile, its cache is still undiscovered and the
\* explorer holds nothing.
OriginHydrated ==
  /\ ~effectPending
  /\ FreshStart
  /\ \A k \in DOMAIN tiles : tiles[k].explored <=> k = KeyOf(Coord(0, 0))
  /\ tiles[KeyOf(Coord(0, 0))].feature = "cache"
  /\ ~tiles[KeyOf(Coord(0, 0))].featureDiscovered

\* C25: signalStrength is max(0, 100 - 6 * distance to the beacon), lies in
\* 0..100 and is 100 exactly when the explorer stands on the beacon.
SignalStrengthExact ==
  LET raw == 100 - 6 * hexDistance(player.position, beaconCoord)
  IN  /\ signalStrength = IF raw < 0 THEN 0 ELSE raw
      /\ signalStrength \in 0..100
      /\ signalStrength = 100 <=> player.position = beaconCoord

\* The explorer stands at the end of the retreat, 18 from the beacon, where
\* 100 - 6 * 18 is below zero and the signal reads 0.
SignalLost ==
  /\ player.position = Coord(-4, 6)
  /\ hexDistance(player.position, beaconCoord) = 18
  /\ signalStrength = 0

\* C26: parseHexKey(hexKey(q, r)) is the coordinate (q, r), for negative q
\* and r as well.
KeyRoundTrip ==
  call.fn = "hexKey" /\ returned # << >> => returned[1].parsed = Coord(call.q, call.r)

\* The key of a hex with two negative coordinates of two digits has been
\* made and parsed.
NegativeKeyParsed ==
  /\ call.fn = "hexKey"
  /\ call.q = -10
  /\ call.r = -12
  /\ returned # << >>
  /\ returned[1].key = << "-", "1", "0", ",", "-", "1", "2" >>

\* C27: parseHexKey of a malformed key fails with a parse error: the call
\* does not return a value, let alone a coordinate with a NaN or missing
\* component.
MalformedKeyRejected ==
  call.fn = "parseHexKey" /\ returned # << >> =>
    /\ returned[1].threw
    /\ returned[1].value.q \in Int
    /\ returned[1].value.r \in Int

\* C28: for hexes a, b, c with integer coordinates hexDistance(a, b) is a
\* non-negative integer (the sum it halves is even), hexDistance(a, a) is
\* 0, hexDistance(a, b) = hexDistance(b, a), and hexDistance(a, c) is at
\* most hexDistance(a, b) + hexDistance(b, c).
DistanceIsMetric ==
  call.fn = "hexDistance" /\ returned # << >> =>
    LET d == returned[1]
    IN  /\ d.dividend % 2 = 0
        /\ 2 * d.ab = d.dividend
        /\ d.ab \in Nat
        /\ d.aa = 0
        /\ d.ab = d.ba
        /\ d.ac <= d.ab + d.bc

\* The distances among three hexes in a row have been taken: b lies
\* between a and c, and the triangle inequality is met with equality.
DistancesInARow ==
  /\ call.fn = "hexDistance"
  /\ call.a = Coord(-1, 1)
  /\ call.b = Coord(0, 0)
  /\ call.c = Coord(2, -2)
  /\ returned # << >>
  /\ returned[1].ab = 1
  /\ returned[1].bc = 2
  /\ returned[1].ac = 3

\* C29: hexesInRadius(c, n) holds exactly the hexes within distance n of c,
\* each once, so 3n^2 + 3n + 1 of them.
RadiusIsBall ==
  call.fn = "hexesInRadius" /\ returned # << >> =>
    LET results == returned[1]
        n == call.radius
    IN  /\ \A i \in DOMAIN results : hexDistance(call.center, results[i]) <= n
        /\ \A h \in Box(call.center, n + 1) :
              hexDistance(call.center, h) <= n => \E i \in DOMAIN results : results[i] = h
        /\ \A i, j \in DOMAIN results : results[i] = results[j] => i = j
        /\ Len(results) = 3 * n * n + 3 * n + 1

\* The hexes within 3 of (-2, 1) have been listed: 37 of them.
BallOfThreeListed ==
  /\ call.fn = "hexesInRadius"
  /\ call.center = Coord(-2, 1)
  /\ call.radius = 3
  /\ returned # << >>
  /\ Len(returned[1]) = 37

\* C30: for n >= 1 hexRing(c, n) is a sequence of 6n hexes, no two the
\* same, each at distance n from c, whose first is c + n * (-1, +1) and in
\* which each hex is adjacent to the one before it; hexRing(c, 0) is the
\* one hex c.
RingIsRing ==
  call.fn = "hexRing" /\ returned # << >> =>
    LET ring == returned[1]
        c == call.center
        n == call.radius
    IN  IF n = 0
        THEN ring = << c >>
        ELSE /\ Len(ring) = 6 * n
             /\ \A i, j \in DOMAIN ring : ring[i] = ring[j] => i = j
             /\ \A i \in DOMAIN ring : hexDistance(c, ring[i]) = n
             /\ ring[1] = Coord(c.q - n, c.r + n)
             /\ \A i \in 1..(Len(ring) - 1) : hexDistance(ring[i], ring[i + 1]) = 1

\* The ring of radius 3 around (1, -2) has been listed, from (-2, 1) on.
RingOfThreeListed ==
  /\ call.fn = "hexRing"
  /\ call.center = Coord(1, -2)
  /\ call.radius = 3
  /\ returned # << >>
  /\ Len(returned[1]) = 18
  /\ returned[1][1] = Coord(-2, 1)
  /\ returned[1][2] = Coord(-1, 1)

\* ceil(max(width, height) / zoom / 80) + 2 for the call under way: the
\* least whole number of 80ths that covers the larger side, and 2.
CullReach ==
  LET side == Max(call.containerWidth, call.containerHeight) * call.zoom.den
      unit == 80 * call.zoom.num
  IN  2 + CHOOSE m \in 0..side : m * unit >= side /\ (m - 1) * unit < side

\* C23: the culler returns exactly the stored tiles whose hex lies within
\* ceil(max(width, height) / zoom / 80) + 2 of the center hex, each with
\* its key; it leaves the store as it was; and a second run on the same
\* camera, viewport and store returns the same.
CullerExact ==
  call.fn = "visibleTiles" /\ returned # << >> =>
    LET out == returned[1]
        stored == call.tiles
    IN  /\ \A i \in DOMAIN out.visible :
              /\ out.visible[i].key \in DOMAIN stored
              /\ out.visible[i].tile = stored[out.visible[i].key]
              /\ hexDistance(call.centerHex, parseHexKey(out.visible[i].key)) <= CullReach
        /\ \A k \in DOMAIN stored :
              hexDistance(call.centerHex, parseHexKey(k)) <= CullReach
                => \E i \in DOMAIN out.visible : out.visible[i].key = k
        /\ out.tiles = stored
        /\ out.again = out.visible

\* The culler has run with the camera on (2, 2) and a reach of 4 over the
\* first store: it kept some of the 61 hexes in view and dropped those
\* beyond the store's edge, and it left out stored tiles out of view.
CulledAtTheEdge ==
  /\ call.fn = "visibleTiles"
  /\ call.centerHex = Coord(2, 2)
  /\ CullReach = 4
  /\ returned # << >>
  /\ Len(returned[1].visible) > 0
  /\ Len(returned[1].visible) < 61
  /\ Len(returned[1].visible) < Cardinality(DOMAIN call.tiles)

\* The hash of the call under way, modulo m.
RollOf(m) == HashMod(returned[1].hash, m)

\* C31: the terrain of a generated tile is fixed by hash mod 10000 (below
\* 1200 forest, 1800 mountain, 2500 water, 3200 desert, 3500 ruins, 3600
\* void, else plains), overridden to settlement at (0, 0) and, over
\* everything, to beacon at the beacon coordinate; the tile is at (q, r)
\* with revealed, explored and featureDiscovered false; and a second call
\* with the same arguments returns the same tile.
TerrainByRoll ==
  call.fn = "generateTile" /\ returned # << >> =>
    LET tile == returned[1].tile
        roll == RollOf(10000)
        band == CASE roll < 1200 -> "forest"
                  [] roll >= 1200 /\ roll < 1800 -> "mountain"
                  [] roll >= 1800 /\ roll < 2500 -> "water"
                  [] roll >= 2500 /\ roll < 3200 -> "desert"
                  [] roll >= 3200 /\ roll < 3500 -> "ruins"
                  [] roll >= 3500 /\ roll < 3600 -> "void"
                  [] roll >= 3600 -> "plains"
    IN  /\ tile.type = IF Coord(call.q, call.r) = call.beacon THEN "beacon"
                       ELSE IF Coord(call.q, call.r) = Coord(0, 0) THEN "settlement"
                       ELSE band
        /\ tile.q = call.q /\ tile.r = call.r
        /\ ~tile.revealed /\ ~tile.explored /\ ~tile.featureDiscovered
        /\ returned[1].again = tile

\* The tile of (5, -7) has been generated with the beacon at its place:
\* its roll falls in the void band.
VoidGenerated ==
  /\ call = [fn |-> "generateTile", q |-> 5, r |-> -7, beacon |-> beaconCoord]
  /\ returned # << >>
  /\ RollOf(10000) \in 3500..3599
  /\ returned[1].tile.type = "void"

\* C32: every stored tile is passable unless it is void, and costs 1 to
\* enter on plains, settlement and beacon, 2 on forest, desert and ruins, 3
\* on mountain and water; a tile built over is no exception.
AttributesFollowTerrain ==
  \A k \in DOMAIN tiles :
    LET tile == tiles[k]
    IN  /\ tile.passable <=> tile.type # "void"
        /\ tile.type \in {"plains", "settlement", "beacon"} => tile.movementCost = 1
        /\ tile.type \in {"forest", "desert", "ruins"} => tile.movementCost = 2
        /\ tile.type \in {"mountain", "water"} => tile.movementCost = 3
        /\ tile.type \in {"plains", "settlement", "beacon", "forest", "desert", "ruins",
                          "mountain", "water", "void"}

\* An outpost stands where generateTile puts a mountain, and the store
\* holds a void tile as well.
OutpostOverMountain ==
  /\ KeyOf(MountainHex) \in DOMAIN tiles
  /\ Generated(MountainHex).type = "mountain"
  /\ tiles[KeyOf(MountainHex)].type = "settlement"
  /\ tiles[KeyOf(MountainHex)].movementCost = 1
  /\ \E k \in DOMAIN tiles : tiles[k].type = "void" /\ ~tiles[k].passable

\* C33: a generated tile carries the cache feature exactly when it is not
\* the beacon tile, its terrain is neither void nor water and its hash is a
\* multiple of 37; the beacon tile carries the beacon feature; every other
\* tile carries none.
CacheByHash ==
  call.fn = "generateTile" /\ returned # << >> =>
    LET tile == returned[1].tile
        atBeacon == Coord(call.q, call.r) = call.beacon
    IN  /\ tile.feature = "cache" <=>
              ~atBeacon /\ tile.type \notin {"void", "water"} /\ RollOf(37) = 0
        /\ tile.feature = "beacon" <=> atBeacon
        /\ tile.feature \in {"cache", "beacon", Undefined}

\* The tile of (-12, -12) has been generated: its hash is a multiple of 37
\* but it is water, and it carries no feature.
WaterWithoutCache ==
  /\ call = [fn |-> "generateTile", q |-> -12, r |-> -12, beacon |-> beaconCoord]
  /\ returned # << >>
  /\ RollOf(37) = 0
  /\ returned[1].tile.type = "water"
  /\ returned[1].tile.feature = Undefined

\* C39: for q and r in the range, negative ones included, the hash is a
\* whole number from 0 to 2^31 (held as hi * 65536 + lo: the sign bit of the
\* 32-bit XOR is gone), so hash mod 10000 lies in 0..9999 and the
\* elevation, hash mod 6, in 0..5.
HashInRange ==
  call.fn = "generateTile" /\ returned # << >> =>
    LET hash == returned[1].hash
    IN  /\ hash.hi \in 0..32768
        /\ hash.lo \in 0..65535
        /\ hash.hi = 32768 => hash.lo = 0
        /\ RollOf(10000) \in 0..9999
        /\ returned[1].tile.elevation = RollOf(6)
        /\ returned[1].tile.elevation \in 0..5

\* The hash of (-1, -1) has been taken: the sum is negative, the XOR of the
\* 32-bit patterns has its sign bit set, and the hash is the absolute
\* value of that, 1043956825.
NegativeXorHashed ==
  /\ call.fn = "generateTile"
  /\ call.q = -1
  /\ call.r = -1
  /\ returned # << >>
  /\ Xor32(ToInt32Bits(-1, HASH_Q, -1, HASH_R), ToInt32Bits(1, HASH_QR, 0, 0)).hi >= 32768
  /\ returned[1].hash.hi * 65536 + returned[1].hash.lo = 1043956825

\* The whole number nearest to n / den, a half going up.
Nearest(n, den) ==
  CHOOSE m \in (-RoundReach - RoundReach - 1)..(RoundReach + RoundReach + 1) :
    2 * (m * den - n) <= den /\ 2 * (m * den - n) > -den

\* C34: hexRound rounds q, r and s = -q - r each to the nearest whole number
\* and recomputes one component from the other two: q when its rounding
\* error is larger than both others, otherwise r when its error is larger
\* than that of s, otherwise s; the cube coordinates returned (s being
\* -q - r of the result) sum to 0, and a coordinate of whole numbers is
\* returned as it is.
RoundFixesWorst ==
  call.fn = "hexRound" /\ returned # << >> =>
    LET den == call.den
        sn == -call.qn - call.rn
        rq == Nearest(call.qn, den)
        rr == Nearest(call.rn, den)
        rs == Nearest(sn, den)
        qErr == Abs(rq * den - call.qn)
        rErr == Abs(rr * den - call.rn)
        sErr == Abs(rs * den - sn)
        out == returned[1]
        outS == -out.q - out.r
    IN  /\ qErr > rErr /\ qErr > sErr => out.r = rr /\ outS = rs
        /\ ~(qErr > rErr /\ qErr > sErr) /\ rErr > sErr => out.q = rq /\ outS = rs
        /\ ~(qErr > rErr /\ qErr > sErr) /\ ~(rErr > sErr) => out.q = rq /\ out.r = rr
        /\ out.q + out.r + outS = 0
        /\ call.qn % den = 0 /\ call.rn % den = 0 => out = Coord(call.qn \div den, call.rn \div den)

\* hexRound(0.5, 0.5) has returned: q and r are both half a hex off, s is
\* exact, and it is r that was recomputed.
RoundedOnTheEdge ==
  /\ call = [fn |-> "hexRound", qn |-> 2, rn |-> 2, den |-> Quarter]
  /\ returned = << Coord(1, 0) >>

\* C35: one mouse click on a rendered tile applies the move once: when the
\* click moves the explorer to c, the energy has gone down by the movement
\* cost of c once and the inventory is the one a single call of the
\* tile-click handler leaves.
ClickAppliesMoveOnce ==
  [][\A c \in HomeTargets :
       Click(c) /\ Moved =>
         /\ player'.energy = player.energy - TileAt(c).movementCost
         /\ inventory' = handleTileClick(Snapshot, Snapshot, c).inventory]_vars

\* C36: the game cannot soft-lock: in every reachable state where hasWon is
\* false, a move to one of the six adjacent hexes, a rest or a pulse is
\* accepted.
NoSoftLock ==
  ~hasWon =>
    \/ \E i \in DOMAIN HEX_DIRECTIONS :
         moveAccepted(Snapshot, Coord(player.position.q + HEX_DIRECTIONS[i].q,
                                      player.position.r + HEX_DIRECTIONS[i].r))
    \/ TileAt(player.position).type = "settlement" /\ KeyOf(player.position) \in DOMAIN tiles
    \/ ~(inventory.wood < 1)
    \/ ~(player.energy < PULSE_COST)

\* C37: the beacon can be reached: on the expedition, whose every step
\* after Init is a pending effect or an accepted move, rest or pulse, the
\* player comes to stand on the beacon tile with hasWon true.
BeaconCanBeReached == <>(player.position = beaconCoord /\ hasWon /\ ~effectPending)

\* The walk has ended on the beacon, the win recorded and the beacon tile
\* marked explored and discovered.
ExpeditionComplete ==
  /\ player.position = beaconCoord
  /\ hasWon
  /\ ~effectPending
  /\ TileAt(beaconCoord).explored
  /\ TileAt(beaconCoord).featureDiscovered

\* C38: a tile with the cache feature has its featureDiscovered flag turned
\* to true only by a step that also adds the cache bonus of 2 to the
\* supplies.
CacheDiscoveredWithBonus ==
  [][\A key \in DOMAIN tiles' :
       /\ tiles'[key].feature = "cache"
       /\ tiles'[key].featureDiscovered
       /\ ~(key \in DOMAIN tiles /\ tiles[key].featureDiscovered)
       => inventory'.supplies >= inventory.supplies + 2]_vars

====
